---- MODULE Spec2Model ----
(***************************************************************************)
(* A model of mt-kahypar/utils/atomic_ops.h: the portable atomic           *)
(* operations (MSVC _Interlocked* branch and GCC/Clang __atomic_* branch), *)
(* the public mtk_atomic_* API and the GCC-builtin compatibility shim.     *)
(*                                                                         *)
(* A value of type T is its object representation: a little-endian         *)
(* sequence of sizeof(T) bytes, each in 0..255, so that every width keeps  *)
(* its real range (2^(8w) values) and arithmetic wraps where the hardware  *)
(* wraps.  The two branches of the #ifdef are run side by side on two      *)
(* copies of the location, against the same calls in the same order.       *)
(***************************************************************************)
EXTENDS Integers, Sequences, FiniteSets, TLC

VARIABLES
  width,   \* sizeof(T) of the atomic location, in bytes
  mem,     \* [Impl -> value]: *ptr under each implementation
  start,   \* the content the location was initialised with
  last,    \* the most recent completed call (arguments, pre-state, outcome)
  pc,      \* [Threads -> Nat]: calls completed by each thread
  got,     \* [Threads -> Seq(call)]: the scenario threads' completed calls, in program order
  run      \* [Threads -> record]: each thread's call in flight and its local variables

vars == <<width, mem, start, last, pc, got, run>>

(* -------------------------------- bounds -------------------------------- *)

\* Threads of the concurrent scenarios.
NThreads == 4

Threads == 1..NThreads

(* ------------------------- the program's constants ----------------------- *)

\* The two branches of #ifdef _MSC_VER.
Impl == {"MSVC", "GCC"}

\* enum class MemoryOrder.
MemoryOrder == {"Relaxed", "Acquire", "Release", "AcqRel", "SeqCst"}

\* The supported storage sizes (static_assert(sizeof(T) <= 8), sizes 1, 2, 4, 8).
Widths == {1, 2, 4, 8}

\* GCC's ordering codes (predefined by GCC, #defined by the shim for MSVC).
ATOMIC_RELAXED == 0
ATOMIC_CONSUME == 1
ATOMIC_ACQUIRE == 2
ATOMIC_RELEASE == 3
ATOMIC_ACQ_REL == 4
ATOMIC_SEQ_CST == 5

(* ---------------------- object representations --------------------------- *)

\* The n-byte value with every byte b.
Fill(n, b) == [i \in 1..n |-> b]

\* The n-byte representation of a small natural k < 256.
Small(n, k) == [i \in 1..n |-> IF i = 1 THEN k ELSE 0]

\* The most negative value of the n-byte signed type: 0x80 00 .. 00.
SignedMin(n) == [i \in 1..n |-> IF i = n THEN 128 ELSE 0]

\* The largest value of the n-byte signed type: 0x7f ff .. ff.
SignedMax(n) == [i \in 1..n |-> IF i = n THEN 127 ELSE 255]

\* The values the calls are tried with, for an n-byte T: 0, 1, 0xff (a carry
\* into the second byte), all ones, and the two ends of the signed range.
Vals(n) ==
  {Fill(n, 0), Small(n, 1), Small(n, 255), Fill(n, 255), SignedMin(n), SignedMax(n)}

RECURSIVE AddFrom(_, _, _, _)
AddFrom(a, b, i, carry) ==
  IF i > Len(a) THEN <<>>
  ELSE LET s == a[i] + b[i] + carry
       IN <<s % 256>> \o AddFrom(a, b, i + 1, s \div 256)

\* a + b on Len(a) bytes, the carry out of the top byte dropped.
WrapAdd(a, b) == AddFrom(a, b, 1, 0)

RECURSIVE SubFrom(_, _, _, _)
SubFrom(a, b, i, borrow) ==
  IF i > Len(a) THEN <<>>
  ELSE LET d == a[i] - b[i] - borrow
       IN <<(d + 256) % 256>> \o SubFrom(a, b, i + 1, IF d < 0 THEN 1 ELSE 0)

\* a - b on Len(a) bytes, the borrow out of the top byte dropped.
WrapSub(a, b) == SubFrom(a, b, 1, 0)

RECURSIVE BitXor(_, _)
BitXor(x, y) ==
  IF x = 0 THEN y
  ELSE IF y = 0 THEN x
  ELSE ((x + y) % 2) + 2 * BitXor(x \div 2, y \div 2)

RECURSIVE BitOr(_, _)
BitOr(x, y) ==
  IF x = 0 THEN y
  ELSE IF y = 0 THEN x
  ELSE (IF x % 2 = 1 \/ y % 2 = 1 THEN 1 ELSE 0) + 2 * BitOr(x \div 2, y \div 2)

XorBytes(a, b) == [i \in 1..Len(a) |-> BitXor(a[i], b[i])]
OrBytes(a, b) == [i \in 1..Len(a) |-> BitOr(a[i], b[i])]

\* static_cast between integer types, from a signed source: the low bytes are
\* kept, and a wider target is filled with the sign.
Cast(n, v) ==
  [i \in 1..n |-> IF i <= Len(v) THEN v[i]
                  ELSE IF v[Len(v)] >= 128 THEN 255 ELSE 0]

\* Integral promotion of a signed operand: types narrower than int become int.
Promote(v) == IF Len(v) < 4 THEN Cast(4, v) ELSE v

\* Unary minus on a signed operand, after promotion.  -x overflows exactly
\* when x is the most negative value of the promoted type: the behaviour is
\* undefined, and ub is what that evaluation then yields.
Negate(v, ub) ==
  LET p == Promote(v)
  IN IF p = SignedMin(Len(p)) THEN Cast(Len(p), ub)
     ELSE WrapSub(Fill(Len(p), 0), p)

(* ------------------------ MSVC: the intrinsics --------------------------- *)

\* The location with its low n bytes replaced by v.
Patch(loc, n, v) == [i \in 1..Len(loc) |-> IF i <= n THEN v[i] ELSE loc[i]]

\* The low n bytes of the location.
Low(loc, n) == [i \in 1..n |-> loc[i]]

\* _InterlockedOr8/16//64: *p |= v on n bytes, returning the original value.
_InterlockedOr(n, loc, v) ==
  [mem |-> Patch(loc, n, OrBytes(Low(loc, n), v)), old |-> Low(loc, n)]

\* _InterlockedExchange8/16//64: *p = v on n bytes, returning the original value.
_InterlockedExchange(n, loc, v) ==
  [mem |-> Patch(loc, n, v), old |-> Low(loc, n)]

\* _InterlockedExchangeAdd8/16//64: *p += v on n bytes, returning the original value.
_InterlockedExchangeAdd(n, loc, v) ==
  [mem |-> Patch(loc, n, WrapAdd(Low(loc, n), v)), old |-> Low(loc, n)]

\* _InterlockedXor8/16//64: *p ^= v on n bytes, returning the original value.
_InterlockedXor(n, loc, v) ==
  [mem |-> Patch(loc, n, XorBytes(Low(loc, n), v)), old |-> Low(loc, n)]

\* _InterlockedCompareExchange8/16//64(p, exchange, comparand): *p = exchange
\* when *p = comparand, returning the original value either way.
_InterlockedCompareExchange(n, loc, exchange, comparand) ==
  [mem |-> IF Low(loc, n) = comparand THEN Patch(loc, n, exchange) ELSE loc,
   old |-> Low(loc, n)]

\* The steps one call executes, in order.
Barrier == "barrier"
Intrinsic == "intrinsic"

\* What a call yields: the location after it, the value returned (<<>> for
\* void), the boolean returned (compare-exchange), *expected after it, the
\* steps executed and the ordering codes handed to the native primitive.
Outcome(m, r, b, e, ev, ord) ==
  [mem |-> m, ret |-> r, ok |-> b, exp |-> e, ev |-> ev, ord |-> ord]

(* ------------------- MSVC: namespace detail (lines 60-187) --------------- *)

\* A faulty load that reads the location plainly under a lock.
MSVC_atomic_load_Locked(w, loc, order) ==
  Outcome(loc, Cast(w, loc), TRUE, <<>>, <<"lock", Intrinsic, "unlock">>, <<>>)

\* A faulty load whose barrier comes before the intrinsic.
MSVC_atomic_load_BarrierFirst(w, loc, order) ==
  LET r == _InterlockedOr(w, loc, Fill(w, 0))
      before == IF order = "Acquire" \/ order = "SeqCst" \/ order = "AcqRel"
                THEN <<Barrier>> ELSE <<>>
  IN Outcome(r.mem, Cast(w, r.old), TRUE, <<>>, before \o <<Intrinsic>>, <<>>)

\* A faulty load emulated as an exchange with zero.
MSVC_atomic_load_ExchangeZero(w, loc, order) ==
  LET r == _InterlockedExchange(w, loc, Fill(w, 0))
      after == IF order = "Acquire" \/ order = "SeqCst" \/ order = "AcqRel"
               THEN <<Barrier>> ELSE <<>>
  IN Outcome(r.mem, Cast(w, r.old), TRUE, <<>>, <<Intrinsic>> \o after, <<>>)

MSVC_atomic_load(w, loc, order) ==
  LET r == IF w = 1 THEN _InterlockedOr(1, loc, Fill(1, 0))
           ELSE IF w = 2 THEN _InterlockedOr(2, loc, Fill(2, 0))
           ELSE IF w = 4 THEN _InterlockedOr(4, loc, Fill(4, 0))
           ELSE _InterlockedOr(8, loc, Fill(8, 0))
      value == Cast(w, r.old)
      after == IF order = "Acquire" \/ order = "SeqCst" \/ order = "AcqRel"
               THEN <<Barrier>> ELSE <<>>
  IN Outcome(r.mem, value, TRUE, <<>>, <<Intrinsic>> \o after, <<>>)

\* A faulty store whose 8-byte branch calls the 4-byte intrinsic.
MSVC_atomic_store_Narrow(w, loc, value, order) ==
  LET r == IF w = 1 THEN _InterlockedExchange(1, loc, Cast(1, value))
           ELSE IF w = 2 THEN _InterlockedExchange(2, loc, Cast(2, value))
           ELSE _InterlockedExchange(4, loc, Cast(4, value))
  IN Outcome(r.mem, <<>>, TRUE, <<>>, <<Intrinsic>>, <<>>)

\* A faulty store whose barrier condition leaves AcqRel out.
MSVC_atomic_store_NoAcqRel(w, loc, value, order) ==
  LET before == IF order = "Release" \/ order = "SeqCst" THEN <<Barrier>> ELSE <<>>
      r == _InterlockedExchange(w, loc, Cast(w, value))
  IN Outcome(r.mem, <<>>, TRUE, <<>>, before \o <<Intrinsic>>, <<>>)

MSVC_atomic_store(w, loc, value, order) ==
  LET before == IF order = "Release" \/ order = "SeqCst" \/ order = "AcqRel"
                THEN <<Barrier>> ELSE <<>>
      r == IF w = 1 THEN _InterlockedExchange(1, loc, Cast(1, value))
           ELSE IF w = 2 THEN _InterlockedExchange(2, loc, Cast(2, value))
           ELSE IF w = 4 THEN _InterlockedExchange(4, loc, Cast(4, value))
           ELSE _InterlockedExchange(8, loc, Cast(8, value))
  IN Outcome(r.mem, <<>>, TRUE, <<>>, before \o <<Intrinsic>>, <<>>)

\* A faulty exchange that returns the value it wrote.
MSVC_atomic_exchange_ReturnsNew(w, loc, value, order) ==
  LET r == _InterlockedExchange(w, loc, Cast(w, value))
  IN Outcome(r.mem, value, TRUE, <<>>, <<Intrinsic>>, <<>>)

MSVC_atomic_exchange(w, loc, value, order) ==
  LET before == IF order = "Release" \/ order = "SeqCst" \/ order = "AcqRel"
                THEN <<Barrier>> ELSE <<>>
      r == IF w = 1 THEN _InterlockedExchange(1, loc, Cast(1, value))
           ELSE IF w = 2 THEN _InterlockedExchange(2, loc, Cast(2, value))
           ELSE IF w = 4 THEN _InterlockedExchange(4, loc, Cast(4, value))
           ELSE _InterlockedExchange(8, loc, Cast(8, value))
      old_val == Cast(w, r.old)
  IN Outcome(r.mem, old_val, TRUE, <<>>, before \o <<Intrinsic>>, <<>>)

\* A faulty fetch_add that returns the value after the addition.
MSVC_atomic_fetch_add_PostValue(w, loc, value, order) ==
  LET r == _InterlockedExchangeAdd(w, loc, Cast(w, value))
  IN Outcome(r.mem, WrapAdd(Cast(w, r.old), value), TRUE, <<>>, <<Intrinsic>>, <<>>)

\* A faulty fetch_add whose 2-byte branch calls the 1-byte intrinsic.
MSVC_atomic_fetch_add_Narrow(w, loc, value, order) ==
  LET r == IF w = 1 THEN _InterlockedExchangeAdd(1, loc, Cast(1, value))
           ELSE IF w = 2 THEN _InterlockedExchangeAdd(1, loc, Cast(1, value))
           ELSE IF w = 4 THEN _InterlockedExchangeAdd(4, loc, Cast(4, value))
           ELSE _InterlockedExchangeAdd(8, loc, Cast(8, value))
  IN Outcome(r.mem, Cast(w, r.old), TRUE, <<>>, <<Intrinsic>>, <<>>)

\* The ordering parameter is unnamed: no barrier is executed.
MSVC_atomic_fetch_add(w, loc, value, order) ==
  LET r == IF w = 1 THEN _InterlockedExchangeAdd(1, loc, Cast(1, value))
           ELSE IF w = 2 THEN _InterlockedExchangeAdd(2, loc, Cast(2, value))
           ELSE IF w = 4 THEN _InterlockedExchangeAdd(4, loc, Cast(4, value))
           ELSE _InterlockedExchangeAdd(8, loc, Cast(8, value))
  IN Outcome(r.mem, Cast(w, r.old), TRUE, <<>>, <<Intrinsic>>, <<>>)

\* atomic_fetch_add(ptr, static_cast<T>(-static_cast<make_signed_t<T>>(value)), order)
MSVC_atomic_fetch_sub(w, loc, value, order, ub) ==
  MSVC_atomic_fetch_add(w, loc, Cast(w, Negate(Cast(w, value), ub)), order)

\* A faulty xor_fetch that returns the intrinsic's result, the value before.
MSVC_atomic_xor_fetch_PreValue(w, loc, value, order) ==
  LET r == _InterlockedXor(w, loc, Cast(w, value))
  IN Outcome(r.mem, Cast(w, r.old), TRUE, <<>>, <<Intrinsic>>, <<>>)

MSVC_atomic_xor_fetch(w, loc, value, order) ==
  LET r == IF w = 1 THEN _InterlockedXor(1, loc, Cast(1, value))
           ELSE IF w = 2 THEN _InterlockedXor(2, loc, Cast(2, value))
           ELSE IF w = 4 THEN _InterlockedXor(4, loc, Cast(4, value))
           ELSE _InterlockedXor(8, loc, Cast(8, value))
      old_val == Cast(w, r.old)
  IN Outcome(r.mem, XorBytes(old_val, value), TRUE, <<>>, <<Intrinsic>>, <<>>)

\* A faulty compare_exchange that leaves *expected alone on failure.
MSVC_atomic_compare_exchange_NoWriteBack(w, loc, expected, desired, success_order, failure_order) ==
  LET r == _InterlockedCompareExchange(w, loc, Cast(w, desired), Cast(w, expected))
  IN Outcome(r.mem, <<>>, Cast(w, r.old) = expected, expected, <<Intrinsic>>, <<>>)

\* A faulty compare-and-swap that stores desired whatever the content was.
MSVC_atomic_compare_exchange_Unconditional(w, loc, expected, desired, success_order, failure_order) ==
  LET r == _InterlockedExchange(w, loc, Cast(w, desired))
      old_val == Cast(w, r.old)
  IN IF old_val = expected
     THEN Outcome(r.mem, <<>>, TRUE, expected, <<Intrinsic>>, <<>>)
     ELSE Outcome(r.mem, <<>>, FALSE, old_val, <<Intrinsic>>, <<>>)

MSVC_atomic_compare_exchange(w, loc, expected, desired, success_order, failure_order) ==
  LET r == IF w = 1
             THEN _InterlockedCompareExchange(1, loc, Cast(1, desired), Cast(1, expected))
           ELSE IF w = 2
             THEN _InterlockedCompareExchange(2, loc, Cast(2, desired), Cast(2, expected))
           ELSE IF w = 4
             THEN _InterlockedCompareExchange(4, loc, Cast(4, desired), Cast(4, expected))
           ELSE _InterlockedCompareExchange(8, loc, Cast(8, desired), Cast(8, expected))
      old_val == Cast(w, r.old)
  IN IF old_val = expected
     THEN Outcome(r.mem, <<>>, TRUE, expected, <<Intrinsic>>, <<>>)
     ELSE Outcome(r.mem, <<>>, FALSE, old_val, <<Intrinsic>>, <<>>)

(* --------------- GCC/Clang: the builtins and namespace detail ------------ *)

to_gcc_order(order) ==
  CASE order = "Relaxed" -> ATOMIC_RELAXED
    [] order = "Acquire" -> ATOMIC_ACQUIRE
    [] order = "Release" -> ATOMIC_RELEASE
    [] order = "AcqRel"  -> ATOMIC_ACQ_REL
    [] order = "SeqCst"  -> ATOMIC_SEQ_CST
    [] OTHER             -> ATOMIC_SEQ_CST

\* GCC's builtins act on the whole object of type T, with the given ordering code.
builtin_atomic_load_n(loc, memorder) ==
  Outcome(loc, loc, TRUE, <<>>, <<Intrinsic>>, <<memorder>>)

builtin_atomic_store_n(loc, val, memorder) ==
  Outcome(val, <<>>, TRUE, <<>>, <<Intrinsic>>, <<memorder>>)

builtin_atomic_exchange_n(loc, val, memorder) ==
  Outcome(val, loc, TRUE, <<>>, <<Intrinsic>>, <<memorder>>)

builtin_atomic_fetch_add(loc, val, memorder) ==
  Outcome(WrapAdd(loc, val), loc, TRUE, <<>>, <<Intrinsic>>, <<memorder>>)

builtin_atomic_fetch_sub(loc, val, memorder) ==
  Outcome(WrapSub(loc, val), loc, TRUE, <<>>, <<Intrinsic>>, <<memorder>>)

builtin_atomic_xor_fetch(loc, val, memorder) ==
  Outcome(XorBytes(loc, val), XorBytes(loc, val), TRUE, <<>>, <<Intrinsic>>, <<memorder>>)

\* __atomic_compare_exchange(ptr, expected, desired, weak, success, failure);
\* weak = false is the strong variation, which fails only on a mismatch.
builtin_atomic_compare_exchange(loc, expected, desired, weak, success, failure) ==
  IF loc = expected
  THEN Outcome(desired, <<>>, TRUE, expected, <<Intrinsic>>, <<success, failure>>)
  ELSE Outcome(loc, <<>>, FALSE, loc, <<Intrinsic>>, <<success, failure>>)

GCC_atomic_load(w, loc, order) ==
  builtin_atomic_load_n(loc, to_gcc_order(order))

GCC_atomic_store(w, loc, value, order) ==
  builtin_atomic_store_n(loc, value, to_gcc_order(order))

GCC_atomic_exchange(w, loc, value, order) ==
  builtin_atomic_exchange_n(loc, value, to_gcc_order(order))

GCC_atomic_fetch_add(w, loc, value, order) ==
  builtin_atomic_fetch_add(loc, value, to_gcc_order(order))

GCC_atomic_fetch_sub(w, loc, value, order) ==
  builtin_atomic_fetch_sub(loc, value, to_gcc_order(order))

GCC_atomic_xor_fetch(w, loc, value, order) ==
  builtin_atomic_xor_fetch(loc, value, to_gcc_order(order))

GCC_atomic_compare_exchange(w, loc, expected, desired, success_order, failure_order) ==
  builtin_atomic_compare_exchange(loc, expected, desired, FALSE,
                                  to_gcc_order(success_order), to_gcc_order(failure_order))

(* ------------------------- the public API (247-290) ---------------------- *)

mtk_atomic_load(impl, w, loc, order) ==
  IF impl = "MSVC" THEN MSVC_atomic_load(w, loc, order)
  ELSE GCC_atomic_load(w, loc, order)

mtk_atomic_store(impl, w, loc, value, order) ==
  IF impl = "MSVC" THEN MSVC_atomic_store(w, loc, value, order)
  ELSE GCC_atomic_store(w, loc, value, order)

mtk_atomic_exchange(impl, w, loc, value, order) ==
  IF impl = "MSVC" THEN MSVC_atomic_exchange(w, loc, value, order)
  ELSE GCC_atomic_exchange(w, loc, value, order)

mtk_atomic_fetch_add(impl, w, loc, value, order) ==
  IF impl = "MSVC" THEN MSVC_atomic_fetch_add(w, loc, value, order)
  ELSE GCC_atomic_fetch_add(w, loc, value, order)

mtk_atomic_fetch_sub(impl, w, loc, value, order, ub) ==
  IF impl = "MSVC" THEN MSVC_atomic_fetch_sub(w, loc, value, order, ub)
  ELSE GCC_atomic_fetch_sub(w, loc, value, order)

mtk_atomic_xor_fetch(impl, w, loc, value, order) ==
  IF impl = "MSVC" THEN MSVC_atomic_xor_fetch(w, loc, value, order)
  ELSE GCC_atomic_xor_fetch(w, loc, value, order)

\* A faulty compare_exchange that works on a copy of *expected, so that a
\* failed call leaves the caller's expected as it was.
mtk_atomic_compare_exchange_OnCopy(impl, w, loc, expected, desired, success_order, failure_order) ==
  LET r == IF impl = "MSVC"
           THEN MSVC_atomic_compare_exchange(w, loc, expected, desired, success_order, failure_order)
           ELSE GCC_atomic_compare_exchange(w, loc, expected, desired, success_order, failure_order)
  IN Outcome(r.mem, r.ret, r.ok, expected, r.ev, r.ord)

\* T* expected: the callee reads and writes the caller's object.
mtk_atomic_compare_exchange(impl, w, loc, expected, desired, success_order, failure_order) ==
  IF impl = "MSVC"
  THEN MSVC_atomic_compare_exchange(w, loc, expected, desired, success_order, failure_order)
  ELSE GCC_atomic_compare_exchange(w, loc, expected, desired, success_order, failure_order)

\* A faulty compare_exchange_n that takes expected by reference.
mtk_atomic_compare_exchange_n_ByReference(impl, w, loc, expected, desired, success_order, failure_order) ==
  IF impl = "MSVC"
  THEN MSVC_atomic_compare_exchange(w, loc, expected, desired, success_order, failure_order)
  ELSE GCC_atomic_compare_exchange(w, loc, expected, desired, success_order, failure_order)

\* T expected: the parameter is a copy, &expected is the copy's address, and the
\* copy dies at the return; exp is the caller's own object, which was never addressed.
mtk_atomic_compare_exchange_n(impl, w, loc, expected, desired, success_order, failure_order) ==
  LET copy == expected
      r == IF impl = "MSVC"
           THEN MSVC_atomic_compare_exchange(w, loc, copy, desired, success_order, failure_order)
           ELSE GCC_atomic_compare_exchange(w, loc, copy, desired, success_order, failure_order)
  IN Outcome(r.mem, r.ret, r.ok, expected, r.ev, r.ord)

(* ------------- the GCC-builtin compatibility shim (294-340) -------------- *)

\* A faulty table with the cases of Acquire and Release exchanged.
mtk_map_gcc_order_Swapped(order) ==
  CASE order = ATOMIC_RELAXED -> "Relaxed"
    [] order = ATOMIC_ACQUIRE -> "Release"
    [] order = ATOMIC_RELEASE -> "Acquire"
    [] order = ATOMIC_ACQ_REL -> "AcqRel"
    [] order = ATOMIC_SEQ_CST -> "SeqCst"
    [] OTHER                  -> "SeqCst"

\* A faulty variant: the default takes the weakest ordering.
mtk_map_gcc_order_WeakDefault(order) ==
  CASE order = ATOMIC_RELAXED -> "Relaxed"
    [] order = ATOMIC_ACQUIRE -> "Acquire"
    [] order = ATOMIC_RELEASE -> "Release"
    [] order = ATOMIC_ACQ_REL -> "AcqRel"
    [] order = ATOMIC_SEQ_CST -> "SeqCst"
    [] OTHER                  -> "Relaxed"

mtk_map_gcc_order(order) ==
  CASE order = ATOMIC_RELAXED -> "Relaxed"
    [] order = ATOMIC_ACQUIRE -> "Acquire"
    [] order = ATOMIC_RELEASE -> "Release"
    [] order = ATOMIC_ACQ_REL -> "AcqRel"
    [] order = ATOMIC_SEQ_CST -> "SeqCst"
    [] OTHER                  -> "SeqCst"

\* What a shim entry point does: the orderings it hands to the dispatch layer
\* and the outcome of the dispatch-layer call it returns.
Forward(orders, out) == [order |-> orders, out |-> out]

\* The shim is compiled under _MSC_VER only: T is ptr's type, val is cast to T.
__atomic_fetch_add(w, loc, val, memorder) ==
  Forward(<<mtk_map_gcc_order(memorder)>>,
          mtk_atomic_fetch_add("MSVC", w, loc, Cast(w, val), mtk_map_gcc_order(memorder)))

__atomic_fetch_sub(w, loc, val, memorder, ub) ==
  Forward(<<mtk_map_gcc_order(memorder)>>,
          mtk_atomic_fetch_sub("MSVC", w, loc, Cast(w, val), mtk_map_gcc_order(memorder), ub))

__atomic_exchange_n(w, loc, val, memorder) ==
  Forward(<<mtk_map_gcc_order(memorder)>>,
          mtk_atomic_exchange("MSVC", w, loc, Cast(w, val), mtk_map_gcc_order(memorder)))

\* A faulty variant: forwards to the by-value compare-and-swap, which leaves
\* the caller's *expected alone.
__atomic_compare_exchange_n_ByValue(w, loc, expected, desired, weak, success_order, failure_order) ==
  Forward(<<mtk_map_gcc_order(success_order), mtk_map_gcc_order(failure_order)>>,
          mtk_atomic_compare_exchange_n("MSVC", w, loc, expected, Cast(w, desired),
                                        mtk_map_gcc_order(success_order),
                                        mtk_map_gcc_order(failure_order)))

__atomic_compare_exchange_n(w, loc, expected, desired, weak, success_order, failure_order) ==
  Forward(<<mtk_map_gcc_order(success_order), mtk_map_gcc_order(failure_order)>>,
          mtk_atomic_compare_exchange("MSVC", w, loc, expected, Cast(w, desired),
                                      mtk_map_gcc_order(success_order),
                                      mtk_map_gcc_order(failure_order)))

(* ------------------------ calls and their records ------------------------ *)

(* ---------------- namespace mt_kahypar::utils (377-408) ------------------ *)

RECURSIVE BitAnd(_, _)
BitAnd(x, y) ==
  IF x = 0 \/ y = 0 THEN 0
  ELSE (IF x % 2 = 1 /\ y % 2 = 1 THEN 1 ELSE 0) + 2 * BitAnd(x \div 2, y \div 2)

AndBytes(a, b) == [i \in 1..Len(a) |-> BitAnd(a[i], b[i])]

\* Bit k (0 = least significant) of a value.
Bit(v, k) == (v[(k \div 8) + 1] \div (2 ^ (k % 8))) % 2

\* The position of the first set bit at or above bit k; v has one.
RECURSIVE ScanForward(_, _)
ScanForward(v, k) == IF Bit(v, k) = 1 THEN k ELSE ScanForward(v, k + 1)

\* unsigned char _BitScanForward64(unsigned long* Index, unsigned __int64 Mask):
\* nonzero and *Index set if Mask has a set bit, else 0 and *Index untouched
\* (index is uninitialised in the caller: any).
_BitScanForward64(mask, any) ==
  IF mask = Fill(8, 0) THEN [found |-> FALSE, index |-> any]
  ELSE [found |-> TRUE, index |-> ScanForward(mask, 0)]

\* int __builtin_ctzll(unsigned long long x): the number of trailing zero bits;
\* for x = 0 the result is undefined (any).
builtin_ctzll(x, any) ==
  IF x = Fill(8, 0) THEN any ELSE ScanForward(x, 0)

\* __popcnt64 and __builtin_popcountll: the number of set bits.
__popcnt64(x) == Cardinality({k \in 0..63 : Bit(x, k) = 1})

builtin_popcountll(x) == Cardinality({k \in 0..63 : Bit(x, k) = 1})

popcount_64(impl, x) ==
  IF impl = "MSVC" THEN __popcnt64(x) ELSE builtin_popcountll(x)

lowest_set_bit_64(impl, x, any) ==
  IF impl = "MSVC"
  THEN LET r == _BitScanForward64(x, any)
       IN IF r.found THEN r.index ELSE 64
  ELSE builtin_ctzll(x, any)

\* x is an int; for x > 1, x >> 1 is x / 2 rounded down.
RECURSIVE log2(_)
log2(x) == IF x <= 1 THEN 0 ELSE 1 + log2(x \div 2)

\* A faulty variant without the test for 0.
is_power_of_2_NoZeroTest(x) ==
  AndBytes(x, WrapSub(x, Small(8, 1))) = Fill(8, 0)

\* x is a uint64_t; x - 1 wraps at 0.
is_power_of_2(x) ==
  x # Fill(8, 0) /\ AndBytes(x, WrapSub(x, Small(8, 1))) = Fill(8, 0)

\* The default MemoryOrder of the public API.
DefaultOrder == "SeqCst"

\* A thread with no call in flight.
Idle == [op |-> "none"]

NoCall ==
  [op |-> "none", t |-> 0, order |-> <<>>, code |-> <<>>, arg |-> <<>>,
   expected |-> <<>>, old |-> mem, out |-> [i \in Impl |-> Outcome(mem[i], <<>>, TRUE, <<>>, <<>>, <<>>)]]

Call(op, t, order, code, arg, expected, out) ==
  [op |-> op, t |-> t, order |-> order, code |-> code, arg |-> arg,
   expected |-> expected, old |-> mem, out |-> out]

\* A call by the single caller: the location takes the call's effect and the
\* call becomes the last one.
Commit(c) ==
  /\ mem' = [i \in Impl |-> c.out[i].mem]
  /\ last' = c
  /\ pc' = [pc EXCEPT ![c.t] = @ + 1]
  /\ UNCHANGED <<width, start, got, run>>

\* A call by a scenario thread, which also keeps the call in its log.
CommitLogged(c) ==
  /\ mem' = [i \in Impl |-> c.out[i].mem]
  /\ last' = c
  /\ pc' = [pc EXCEPT ![c.t] = @ + 1]
  /\ got' = [got EXCEPT ![c.t] = Append(@, c)]
  /\ UNCHANGED <<width, start, run>>

(* ------- Spec: any one call, on any content, with any arguments ---------- *)

\* The thread that makes the calls of the single-threaded specifications.
Caller == CHOOSE t \in Threads : \A u \in Threads : t <= u

Init ==
  /\ width \in Widths
  /\ start \in Vals(width)
  /\ mem = [i \in Impl |-> start]
  /\ last = NoCall
  /\ pc = [t \in Threads |-> 0]
  /\ got = [t \in Threads |-> <<>>]
  /\ run = [t \in Threads |-> Idle]

\* The caller makes one call.
MayCall == pc[Caller] = 0

Load ==
  /\ MayCall
  /\ \E o \in MemoryOrder :
       Commit(Call("load", Caller, <<o>>, <<>>, <<>>, <<>>,
                   [i \in Impl |-> mtk_atomic_load(i, width, mem[i], o)]))

Store ==
  /\ MayCall
  /\ \E o \in MemoryOrder, v \in Vals(width) :
       Commit(Call("store", Caller, <<o>>, <<>>, v, <<>>,
                   [i \in Impl |-> mtk_atomic_store(i, width, mem[i], v, o)]))

Exchange ==
  /\ MayCall
  /\ \E o \in MemoryOrder, v \in Vals(width) :
       Commit(Call("exchange", Caller, <<o>>, <<>>, v, <<>>,
                   [i \in Impl |-> mtk_atomic_exchange(i, width, mem[i], v, o)]))

FetchAdd ==
  /\ MayCall
  /\ \E o \in MemoryOrder, v \in Vals(width) :
       Commit(Call("fetch_add", Caller, <<o>>, <<>>, v, <<>>,
                   [i \in Impl |-> mtk_atomic_fetch_add(i, width, mem[i], v, o)]))

FetchSub ==
  /\ MayCall
  /\ \E o \in MemoryOrder, v \in Vals(width), ub \in Vals(width) :
       Commit(Call("fetch_sub", Caller, <<o>>, <<>>, v, <<>>,
                   [i \in Impl |-> mtk_atomic_fetch_sub(i, width, mem[i], v, o, ub)]))

XorFetch ==
  /\ MayCall
  /\ \E o \in MemoryOrder, v \in Vals(width) :
       Commit(Call("xor_fetch", Caller, <<o>>, <<>>, v, <<>>,
                   [i \in Impl |-> mtk_atomic_xor_fetch(i, width, mem[i], v, o)]))

\* expected is the location's content (under either implementation) or any
\* of the argument values.
CompareExchange ==
  /\ MayCall
  /\ \E so \in MemoryOrder, fo \in MemoryOrder,
        e \in Vals(width) \cup {mem[i] : i \in Impl}, d \in Vals(width) :
       Commit(Call("compare_exchange", Caller, <<so, fo>>, <<>>, d, e,
                   [i \in Impl |-> mtk_atomic_compare_exchange(i, width, mem[i], e, d, so, fo)]))

CompareExchangeN ==
  /\ MayCall
  /\ \E so \in MemoryOrder, fo \in MemoryOrder,
        e \in Vals(width) \cup {mem[i] : i \in Impl}, d \in Vals(width) :
       Commit(Call("compare_exchange_n", Caller, <<so, fo>>, <<>>, d, e,
                   [i \in Impl |-> mtk_atomic_compare_exchange_n(i, width, mem[i], e, d, so, fo)]))

Next ==
  \/ Load
  \/ Store
  \/ Exchange
  \/ FetchAdd
  \/ FetchSub
  \/ XorFetch
  \/ CompareExchange
  \/ CompareExchangeN

Spec == Init /\ [][Next]_vars

(* --- SpecShim: any one call of a compatibility entry point (MSVC), beside --- *)
(* --- the same call of GCC's own builtin                                  --- *)

\* The integer ordering codes tried: the six GCC codes and one on either side.
OrderCodes == (ATOMIC_RELAXED - 1)..(ATOMIC_SEQ_CST + 1)

ShimFetchAdd ==
  /\ MayCall
  /\ \E m \in OrderCodes, v \in Vals(width) :
       LET f == __atomic_fetch_add(width, mem["MSVC"], v, m)
       IN Commit(Call("__atomic_fetch_add", Caller, f.order, <<m>>, v, <<>>,
                      [i \in Impl |-> IF i = "MSVC" THEN f.out
                                      ELSE builtin_atomic_fetch_add(mem[i], v, m)]))

ShimFetchSub ==
  /\ MayCall
  /\ \E m \in OrderCodes, v \in Vals(width), ub \in Vals(width) :
       LET f == __atomic_fetch_sub(width, mem["MSVC"], v, m, ub)
       IN Commit(Call("__atomic_fetch_sub", Caller, f.order, <<m>>, v, <<>>,
                      [i \in Impl |-> IF i = "MSVC" THEN f.out
                                      ELSE builtin_atomic_fetch_sub(mem[i], v, m)]))

ShimExchangeN ==
  /\ MayCall
  /\ \E m \in OrderCodes, v \in Vals(width) :
       LET f == __atomic_exchange_n(width, mem["MSVC"], v, m)
       IN Commit(Call("__atomic_exchange_n", Caller, f.order, <<m>>, v, <<>>,
                      [i \in Impl |-> IF i = "MSVC" THEN f.out
                                      ELSE builtin_atomic_exchange_n(mem[i], v, m)]))

\* The weak flag is kept in the record as the code 1 (weak) or 0 (strong),
\* after the two ordering codes.
ShimCompareExchangeN ==
  /\ MayCall
  /\ \E ms \in OrderCodes, mf \in OrderCodes, weak \in BOOLEAN,
        e \in {mem["MSVC"], Fill(width, 0), Fill(width, 255)}, d \in Vals(width) :
       LET f == __atomic_compare_exchange_n(width, mem["MSVC"], e, d, weak, ms, mf)
       IN Commit(Call("__atomic_compare_exchange_n", Caller, f.order,
                      <<ms, mf, IF weak THEN 1 ELSE 0>>, d, e,
                      [i \in Impl |-> IF i = "MSVC" THEN f.out
                                      ELSE builtin_atomic_compare_exchange(mem[i], e, d, weak, ms, mf)]))

NextShim ==
  \/ ShimFetchAdd
  \/ ShimFetchSub
  \/ ShimExchangeN
  \/ ShimCompareExchangeN

SpecShim == Init /\ [][NextShim]_vars

(* --- SpecCounter: every thread adds 1 to an 8-byte counter that starts --- *)
(* --- at 0, then loads it once all have added                            --- *)

InitCounter ==
  /\ width = 8
  /\ start = Fill(8, 0)
  /\ mem = [i \in Impl |-> start]
  /\ last = NoCall
  /\ pc = [t \in Threads |-> 0]
  /\ got = [t \in Threads |-> <<>>]
  /\ run = [t \in Threads |-> Idle]

CounterAdd(t) ==
  /\ pc[t] = 0
  /\ CommitLogged(Call("fetch_add", t, <<"SeqCst">>, <<>>, Small(width, 1), <<>>,
                       [i \in Impl |-> mtk_atomic_fetch_add(i, width, mem[i], Small(width, 1), "SeqCst")]))

CounterLoad(t) ==
  /\ pc[t] = 1
  /\ \A u \in Threads : pc[u] >= 1
  /\ CommitLogged(Call("load", t, <<DefaultOrder>>, <<>>, <<>>, <<>>,
                       [i \in Impl |-> mtk_atomic_load(i, width, mem[i], DefaultOrder)]))

NextCounter ==
  \/ \E t \in Threads : CounterAdd(t)
  \/ \E t \in Threads : CounterLoad(t)

SpecCounter == InitCounter /\ [][NextCounter]_vars

(* --- SpecExchange: every thread exchanges in a value of its own ---------- *)

\* The value thread t writes; they are pairwise distinct.
Written(t) == Small(width, t)

\* The orderings the exchanging threads use: one without and one with the
\* leading barrier of the MSVC branch.
ExchangeOrders == {"Relaxed", DefaultOrder}

InitExchange ==
  /\ width \in Widths
  /\ start \in Vals(width) \ {Small(width, t) : t \in Threads}
  /\ mem = [i \in Impl |-> start]
  /\ last = NoCall
  /\ pc = [t \in Threads |-> 0]
  /\ got = [t \in Threads |-> <<>>]
  /\ run = [t \in Threads |-> Idle]

ExchangeOnce(t) ==
  /\ pc[t] = 0
  /\ \E o \in ExchangeOrders :
       CommitLogged(Call("exchange", t, <<o>>, <<>>, Written(t), <<>>,
                         [i \in Impl |-> mtk_atomic_exchange(i, width, mem[i], Written(t), o)]))

NextExchange == \E t \in Threads : ExchangeOnce(t)

SpecExchange == InitExchange /\ [][NextExchange]_vars

(* --- SpecStoreLoad: one thread stores, then loads ------------------------ *)

StoreFirst ==
  /\ pc[Caller] = 0
  /\ \E o \in MemoryOrder, v \in Vals(width) :
       CommitLogged(Call("store", Caller, <<o>>, <<>>, v, <<>>,
                         [i \in Impl |-> mtk_atomic_store(i, width, mem[i], v, o)]))

LoadNext ==
  /\ pc[Caller] = 1
  /\ \E o \in MemoryOrder :
       CommitLogged(Call("load", Caller, <<o>>, <<>>, <<>>, <<>>,
                         [i \in Impl |-> mtk_atomic_load(i, width, mem[i], o)]))

NextStoreLoad ==
  \/ StoreFirst
  \/ LoadNext

SpecStoreLoad == Init /\ [][NextStoreLoad]_vars

(* --- SpecXorTwice: one thread does xor_fetch, load, xor_fetch with the --- *)
(* --- same mask, load                                                    --- *)

XorFirst ==
  /\ pc[Caller] = 0
  /\ \E o \in MemoryOrder, v \in Vals(width) :
       CommitLogged(Call("xor_fetch", Caller, <<o>>, <<>>, v, <<>>,
                         [i \in Impl |-> mtk_atomic_xor_fetch(i, width, mem[i], v, o)]))

XorLoad ==
  /\ pc[Caller] \in {1, 3}
  /\ CommitLogged(Call("load", Caller, <<DefaultOrder>>, <<>>, <<>>, <<>>,
                       [i \in Impl |-> mtk_atomic_load(i, width, mem[i], DefaultOrder)]))

XorAgain ==
  /\ pc[Caller] = 2
  /\ \E o \in MemoryOrder :
       LET v == got[Caller][1].arg
       IN CommitLogged(Call("xor_fetch", Caller, <<o>>, <<>>, v, <<>>,
                            [i \in Impl |-> mtk_atomic_xor_fetch(i, width, mem[i], v, o)]))

NextXorTwice ==
  \/ XorFirst
  \/ XorLoad
  \/ XorAgain

SpecXorTwice == Init /\ [][NextXorTwice]_vars

(* --- SpecSteps: two threads, one call each of any operation, taken one --- *)
(* --- statement at a time                                               --- *)

\* The thread that calls beside the caller.
Rival == CHOOSE t \in Threads : t # Caller

Steppers == {Caller, Rival}

StepOps ==
  {"load", "store", "exchange", "fetch_add", "fetch_sub", "xor_fetch",
   "compare_exchange", "compare_exchange_n"}

\* The default failure ordering of the compare-and-swap functions.
DefaultFailure == "Relaxed"

\* The public function a call names, applied to a content of the location.
Apply(i, c, loc) ==
  CASE c.op = "load"      -> mtk_atomic_load(i, width, loc, c.order[1])
    [] c.op = "store"     -> mtk_atomic_store(i, width, loc, c.arg, c.order[1])
    [] c.op = "exchange"  -> mtk_atomic_exchange(i, width, loc, c.arg, c.order[1])
    [] c.op = "fetch_add" -> mtk_atomic_fetch_add(i, width, loc, c.arg, c.order[1])
    [] c.op = "fetch_sub" -> mtk_atomic_fetch_sub(i, width, loc, c.arg, c.order[1], c.arg)
    [] c.op = "xor_fetch" -> mtk_atomic_xor_fetch(i, width, loc, c.arg, c.order[1])
    [] c.op = "compare_exchange" ->
         mtk_atomic_compare_exchange(i, width, loc, c.expected, c.arg, c.order[1], c.order[2])
    [] c.op = "compare_exchange_n" ->
         mtk_atomic_compare_exchange_n(i, width, loc, c.expected, c.arg, c.order[1], c.order[2])

\* The statements a call executes under an implementation, in program order:
\* they depend on the function and the ordering, not on the content.
Plan(i, c) == Apply(i, c, mem[i]).ev

\* The number of statements of the longer of the two implementations.
Steps(c) ==
  CHOOSE n \in {Len(Plan(i, c)) : i \in Impl} : \A i \in Impl : Len(Plan(i, c)) <= n

NotYet == Outcome(<<>>, <<>>, TRUE, <<>>, <<>>, <<>>)

InitSteps ==
  /\ width \in Widths
  /\ start = Fill(width, 0)
  /\ mem = [i \in Impl |-> start]
  /\ last = NoCall
  /\ pc = [t \in Threads |-> 0]
  /\ got = [t \in Threads |-> <<>>]
  /\ run = [t \in Threads |-> Idle]

\* A thread enters a function of the API.
Invoke(t) ==
  /\ pc[t] = 0
  /\ run[t] = Idle
  /\ \E op \in StepOps, o \in MemoryOrder :
       run' = [run EXCEPT ![t] =
                 [op |-> op, t |-> t,
                  order |-> IF op \in {"compare_exchange", "compare_exchange_n"}
                            THEN <<o, DefaultFailure>> ELSE <<o>>,
                  arg |-> IF op = "load" THEN <<>> ELSE Written(t),
                  expected |-> IF op \in {"compare_exchange", "compare_exchange_n"}
                               THEN start ELSE <<>>,
                  k |-> 0, out |-> [i \in Impl |-> NotYet]]]
  /\ UNCHANGED <<width, mem, start, last, pc, got>>

\* The next statement of a thread inside a function can execute: it is a
\* barrier or a native primitive, neither of which waits for anything.
CanStep(t) ==
  /\ run[t] # Idle
  /\ \A i \in Impl :
       run[t].k < Len(Plan(i, run[t])) =>
         Plan(i, run[t])[run[t].k + 1] \in {Barrier, Intrinsic}

\* A thread inside a function executes its next statement: a barrier, which
\* touches nothing, or the native primitive, which acts on the location at
\* once.  The statement that is the function's last also returns.
Step(t) ==
  /\ CanStep(t)
  /\ LET c == run[t]
         k == c.k + 1
         At(i, e) == k <= Len(Plan(i, c)) /\ Plan(i, c)[k] = e
         out == [i \in Impl |-> IF At(i, Intrinsic) THEN Apply(i, c, mem[i]) ELSE c.out[i]]
     IN /\ mem' = [i \in Impl |-> IF At(i, Intrinsic) THEN out[i].mem ELSE mem[i]]
        /\ IF k = Steps(c)
           THEN /\ last' = Call(c.op, t, c.order, <<>>, c.arg, c.expected, out)
                /\ pc' = [pc EXCEPT ![t] = @ + 1]
                /\ run' = [run EXCEPT ![t] = Idle]
           ELSE /\ run' = [run EXCEPT ![t] = [c EXCEPT !.k = k, !.out = out]]
                /\ UNCHANGED <<last, pc>>
  /\ UNCHANGED <<width, start, got>>

NextSteps ==
  \/ \E t \in Steppers : Invoke(t)
  \/ \E t \in Steppers : Step(t)

SpecSteps == InitSteps /\ [][NextSteps]_vars

(* --- SpecBits: the bit utilities, each called once on a 64-bit value,  --- *)
(* --- and log2 on an int                                                --- *)

\* The 64-bit value with bit k alone set.
OneBit(k) == [j \in 1..8 |-> IF j = (k \div 8) + 1 THEN 2 ^ (k % 8) ELSE 0]

\* The 64-bit value with the bits k..63 set.
OnesFrom(k) ==
  [j \in 1..8 |-> IF j < (k \div 8) + 1 THEN 0
                  ELSE IF j = (k \div 8) + 1 THEN 256 - 2 ^ (k % 8)
                  ELSE 255]

\* The uint64_t arguments tried: 0, every power of two, and for every
\* position the value whose lowest set bit is there with all bits above set.
Bits64 == {Fill(8, 0)} \cup {OneBit(k) : k \in 0..63} \cup {OnesFrom(k) : k \in 0..63}

\* The int arguments tried: INT_MIN, INT_MAX, small negatives, 0, and every
\* power of two with its two neighbours.
Ints32 ==
  {-(2 ^ 30) - 2 ^ 30, -8, -1, 0, (2 ^ 30 - 1) + 2 ^ 30}
    \cup {2 ^ k : k \in 0..30}
    \cup {2 ^ k - 1 : k \in 1..30}
    \cup {2 ^ k + 1 : k \in 1..30}

\* The results a call with an undefined result is tried with.
AnyIndex == 0..64

\* The result of a utility, which touches no location.
Result(x, r) == Outcome(x, r, TRUE, <<>>, <<>>, <<>>)

InitBits ==
  /\ width = 8
  /\ start \in Bits64
  /\ mem = [i \in Impl |-> start]
  /\ last = NoCall
  /\ pc = [t \in Threads |-> 0]
  /\ got = [t \in Threads |-> <<>>]
  /\ run = [t \in Threads |-> Idle]

Popcount64 ==
  /\ pc[Caller] = 0
  /\ CommitLogged(Call("popcount_64", Caller, <<>>, <<>>, start, <<>>,
                       [i \in Impl |-> Result(mem[i], popcount_64(i, start))]))

LowestSetBit64 ==
  /\ pc[Caller] = 1
  /\ \E any \in AnyIndex :
       CommitLogged(Call("lowest_set_bit_64", Caller, <<>>, <<>>, start, <<>>,
                         [i \in Impl |-> Result(mem[i], lowest_set_bit_64(i, start, any))]))

IsPowerOf2 ==
  /\ pc[Caller] = 2
  /\ CommitLogged(Call("is_power_of_2", Caller, <<>>, <<>>, start, <<>>,
                       [i \in Impl |-> Result(mem[i], is_power_of_2(start))]))

Log2 ==
  /\ pc[Caller] = 3
  /\ \E x \in Ints32 :
       CommitLogged(Call("log2", Caller, <<>>, <<>>, x, <<>>,
                         [i \in Impl |-> Result(mem[i], log2(x))]))

NextBits ==
  \/ Popcount64
  \/ LowestSetBit64
  \/ IsPowerOf2
  \/ Log2

SpecBits == InitBits /\ [][NextBits]_vars

(* --- SpecLoadCas: one thread's compare-and-swap among the loads of the --- *)
(* --- other threads                                                     --- *)

\* Any other thread loads, with any ordering.
LoadBeside(t) ==
  /\ t # Caller
  /\ pc[t] = 0
  /\ \E o \in MemoryOrder :
       Commit(Call("load", t, <<o>>, <<>>, <<>>, <<>>,
                   [i \in Impl |-> mtk_atomic_load(i, width, mem[i], o)]))

\* The caller's compare-and-swap, whose expected is the content it knew
\* before any load.
CasAmongLoads ==
  /\ pc[Caller] = 0
  /\ \E so \in MemoryOrder :
       CommitLogged(Call("compare_exchange", Caller, <<so, DefaultFailure>>, <<>>,
                         Written(Caller), start,
                         [i \in Impl |-> mtk_atomic_compare_exchange(i, width, mem[i], start,
                                            Written(Caller), so, DefaultFailure)]))

NextLoadCas ==
  \/ \E t \in Threads : LoadBeside(t)
  \/ CasAmongLoads

SpecLoadCas == InitExchange /\ [][NextLoadCas]_vars

(* --- SpecCasRace: every thread calls compare_exchange once, all with   --- *)
(* --- the initial content as expected                                   --- *)

CasOnce(t) ==
  /\ pc[t] = 0
  /\ \E so \in ExchangeOrders :
       CommitLogged(Call("compare_exchange", t, <<so, DefaultFailure>>, <<>>,
                         Written(t), start,
                         [i \in Impl |-> mtk_atomic_compare_exchange(i, width, mem[i], start,
                                            Written(t), so, DefaultFailure)]))

NextCasRace == \E t \in Threads : CasOnce(t)

SpecCasRace == InitExchange /\ [][NextCasRace]_vars

(* --- SpecCasLoop: every thread increments the location by a            --- *)
(* --- compare-and-swap retry loop                                       --- *)
(*   T expected = mtk_atomic_load(ptr);                                      *)
(*   while (!mtk_atomic_compare_exchange(ptr, &expected, expected + 1)) {}   *)

\* The threads that have left their loop.
Finished == {t \in Threads : pc[t] = 2}

\* The location starts with all bits set: the first increment wraps around to
\* 0 with a carry through every byte, and the later ones count up from 0.
InitLoop ==
  /\ width \in Widths
  /\ start = Fill(width, 255)
  /\ mem = [i \in Impl |-> start]
  /\ last = NoCall
  /\ pc = [t \in Threads |-> 0]
  /\ got = [t \in Threads |-> <<>>]
  /\ run = [t \in Threads |-> Idle]

\* expected := load(ptr).  Beside its local variable the thread notes how
\* many threads had finished when it read the location (since), and how many
\* have finished between its last two reads (between).
LoopLoad(t) ==
  /\ pc[t] = 0
  /\ \E out \in {[i \in Impl |-> mtk_atomic_load(i, width, mem[i], DefaultOrder)]} :
       /\ run' = [run EXCEPT ![t] =
                    [op |-> "loop", expected |-> [i \in Impl |-> out[i].ret],
                     since |-> Cardinality(Finished), between |-> 0]]
       /\ mem' = [i \in Impl |-> out[i].mem]
       /\ last' = Call("load", t, <<DefaultOrder>>, <<>>, <<>>, <<>>, out)
       /\ pc' = [pc EXCEPT ![t] = 1]
  /\ UNCHANGED <<width, start, got>>

\* One evaluation of the loop condition: the thread computes expected + 1
\* (d) and calls compare_exchange (out); on true it leaves the loop, on false
\* it goes round with the expected the call wrote back.
LoopCas(t) ==
  /\ pc[t] = 1
  /\ \E e \in {run[t].expected} :
     \E d \in {[i \in Impl |-> WrapAdd(e[i], Small(width, 1))]} :
     \E out \in {[i \in Impl |->
                    mtk_atomic_compare_exchange(i, width, mem[i], e[i], d[i],
                                                DefaultOrder, DefaultFailure)]} :
       /\ mem' = [i \in Impl |-> out[i].mem]
       /\ last' = Call("compare_exchange", t, <<DefaultOrder, DefaultFailure>>, <<>>,
                       d["MSVC"], e["MSVC"], out)
       /\ pc' = [pc EXCEPT ![t] = IF out["MSVC"].ok THEN 2 ELSE 1]
       /\ run' = [run EXCEPT ![t] =
                    [op |-> "loop", expected |-> [i \in Impl |-> out[i].exp],
                     since |-> Cardinality(Finished),
                     between |-> Cardinality(Finished) - run[t].since]]
  /\ UNCHANGED <<width, start, got>>

NextLoop ==
  \/ \E t \in Threads : LoopLoad(t)
  \/ \E t \in Threads : LoopCas(t)

SpecCasLoop == InitLoop /\ [][NextLoop]_vars

\* The threads are scheduled fairly: a thread that can take a step of its
\* loop eventually takes one.
SpecCasLoopFair ==
  SpecCasLoop /\ \A t \in Threads : WF_vars(LoopLoad(t) \/ LoopCas(t))

(* ============================== the claims ============================== *)

\* The number a value of at most two bytes stands for.
RECURSIVE NumOf(_)
NumOf(v) == IF v = <<>> THEN 0 ELSE v[1] + 256 * NumOf(Tail(v))

\* 2^(8n) for n in {1, 2}.
Range(n) == IF n = 1 THEN 256 ELSE 65536

(* ---- C1 (SpecCounter) ---- *)

\* C1: once each of the N threads has done its fetch_add(ptr, 1, SeqCst) on the
\* 8-byte location that started at 0, the N pre-values returned are exactly
\* 0, 1, .., N-1, no two of them equal, and every load (one made now, and each
\* one a thread has made) returns exactly N; under either implementation.
C1_CounterExact ==
  (\A t \in Threads : pc[t] >= 1) =>
    \A i \in Impl :
      /\ {got[t][1].out[i].ret : t \in Threads} = {Small(8, k) : k \in 0..(NThreads - 1)}
      /\ \A t, u \in Threads : t # u => got[t][1].out[i].ret # got[u][1].out[i].ret
      /\ mtk_atomic_load(i, width, mem[i], DefaultOrder).ret = Small(8, NThreads)
      /\ \A t \in Threads : pc[t] = 2 => got[t][2].out[i].ret = Small(8, NThreads)

\* Every thread has added and has loaded.
C1_AllLoaded ==
  /\ width = 8
  /\ \A t \in Threads : pc[t] = 2 /\ got[t][1].op = "fetch_add" /\ got[t][2].op = "load"

(* ---- C2 (Spec) ---- *)

\* C2: a compare_exchange has exactly two outcomes.  If the location held the
\* expected value it returns true, the location holds desired and expected is
\* unchanged; otherwise it returns false, the location is unchanged and expected
\* holds the location's content.  Under either implementation, for every width.
C2_CasTwoOutcomes ==
  last.op = "compare_exchange" =>
    \A i \in Impl :
      IF last.old[i] = last.expected
      THEN /\ last.out[i].ok
           /\ mem[i] = last.arg
           /\ last.out[i].exp = last.expected
      ELSE /\ ~last.out[i].ok
           /\ mem[i] = last.old[i]
           /\ last.out[i].exp = last.old[i]

\* A compare_exchange failed on an 8-byte location and reported its content.
C2_FailedCas ==
  /\ last.op = "compare_exchange"
  /\ width = 8
  /\ last.old["MSVC"] # last.expected
  /\ last.arg # last.old["MSVC"]
  /\ ~last.out["MSVC"].ok
  /\ last.out["MSVC"].exp = last.old["MSVC"]

(* ---- C3 (Spec) ---- *)

\* C3: whatever the call, its arguments and its orderings, the MSVC and the
\* GCC/Clang implementation return the same value and the same boolean, leave
\* the same content in the location and the same value in expected.
C3_ImplsAgree ==
  /\ mem["MSVC"] = mem["GCC"]
  /\ last.out["MSVC"].ret = last.out["GCC"].ret
  /\ last.out["MSVC"].ok = last.out["GCC"].ok
  /\ last.out["MSVC"].exp = last.out["GCC"].exp

(* ---- C4 (Spec) ---- *)

\* C4: for every width, content old and delta, fetch_add returns old, and the
\* location, as the next load reads it, holds (old + delta) mod 2^(8w): adding
\* wraps, and subtracting delta again gives old back.
C4_FetchAddWraps ==
  last.op = "fetch_add" =>
    \A i \in Impl :
      /\ last.out[i].ret = last.old[i]
      /\ mem[i] = WrapAdd(last.old[i], last.arg)
      /\ mtk_atomic_load(i, width, mem[i], DefaultOrder).ret = WrapAdd(last.old[i], last.arg)
      /\ WrapSub(mem[i], last.arg) = last.old[i]
      /\ width <= 2 =>
           NumOf(mem[i]) = (NumOf(last.old[i]) + NumOf(last.arg)) % Range(width)

\* A fetch_add of 1 wrapped an 8-byte location from all ones to 0.
C4_Wrapped ==
  /\ last.op = "fetch_add"
  /\ width = 8
  /\ last.old["MSVC"] = Fill(8, 255)
  /\ last.arg = Small(8, 1)
  /\ mem["MSVC"] = Fill(8, 0)
  /\ last.out["MSVC"].ret = Fill(8, 255)

(* ---- C5 (Spec) ---- *)

\* C5: for every width, content old and delta, fetch_sub returns old and leaves
\* (old - delta) mod 2^(8w) in the location, under either implementation.
C5_FetchSubWraps ==
  last.op = "fetch_sub" =>
    \A i \in Impl :
      /\ last.out[i].ret = last.old[i]
      /\ mem[i] = WrapSub(last.old[i], last.arg)

(* ---- C6 (SpecXorTwice) ---- *)

\* C6: xor_fetch returns the content after the operation, old XOR mask; the
\* load that follows reads that same value; and after the second xor_fetch
\* with the same mask the location holds its original content again.
C6_XorFetchPostAndBack ==
  \A i \in Impl :
    LET g == got[Caller]
    IN /\ pc[Caller] >= 1 =>
            /\ g[1].out[i].ret = XorBytes(g[1].old[i], g[1].arg)
            /\ g[1].old[i] = start
       /\ pc[Caller] >= 2 => g[2].out[i].ret = g[1].out[i].ret
       /\ pc[Caller] >= 3 =>
            /\ mem[i] = start
            /\ g[3].out[i].ret = start
       /\ pc[Caller] >= 4 => g[4].out[i].ret = start

\* Both xor_fetch calls and both loads are done, with a mask that changes
\* the content.
C6_TwiceDone ==
  /\ pc[Caller] = 4
  /\ got[Caller][1].op = "xor_fetch"
  /\ got[Caller][3].op = "xor_fetch"
  /\ got[Caller][3].arg = got[Caller][1].arg
  /\ got[Caller][1].out["MSVC"].ret # start
  /\ mem["MSVC"] = start

(* ---- C7 (SpecStoreLoad) ---- *)

\* C7: for every width, value and pair of orderings, a store leaves exactly
\* the stored value in the location and the load that follows it in the same
\* thread returns that value.
C7_StoreThenLoad ==
  \A i \in Impl :
    /\ pc[Caller] >= 1 => got[Caller][1].out[i].mem = got[Caller][1].arg
    /\ pc[Caller] = 2 =>
         /\ got[Caller][2].out[i].ret = got[Caller][1].arg
         /\ mem[i] = got[Caller][1].arg

\* A store of a new value and the load after it are done.
C7_Loaded ==
  /\ pc[Caller] = 2
  /\ got[Caller][1].op = "store"
  /\ got[Caller][2].op = "load"
  /\ got[Caller][1].arg # start
  /\ got[Caller][2].out["MSVC"].ret = got[Caller][1].arg

(* ---- C8 (SpecExchange) ---- *)

\* The threads that have made their exchange.
Exchanged == {t \in Threads : pc[t] = 1}

\* C8: an exchange leaves its value in the location and returns what the
\* location held immediately before; among concurrent exchanges of pairwise
\* distinct values other than the initial one, no value is returned twice, and
\* the values returned together with the content of the location are exactly
\* the initial content and the values written so far (so also at the end).
C8_ExchangeHandsOver ==
  \A i \in Impl :
    /\ last.op = "exchange" => mem[i] = last.arg /\ last.out[i].ret = last.old[i]
    /\ \A t, u \in Exchanged : t # u => got[t][1].out[i].ret # got[u][1].out[i].ret
    /\ \A t \in Exchanged : got[t][1].out[i].ret # mem[i]
    /\ {got[t][1].out[i].ret : t \in Exchanged} \cup {mem[i]}
         = {start} \cup {Written(t) : t \in Exchanged}

\* Every thread has made its exchange.
C8_AllExchanged ==
  /\ Exchanged = Threads
  /\ \E t \in Threads : got[t][1].out["MSVC"].ret = start

(* ---- C9 (Spec) ---- *)

\* C9: compare_exchange_n returns the boolean, and leaves the content, that
\* compare_exchange gives on the same location with the same expected value,
\* and the caller's expected value is as it was: after a failure it is not the
\* content of the location.
C9_CasNKeepsExpected ==
  last.op = "compare_exchange_n" =>
    \A i \in Impl :
      LET c == mtk_atomic_compare_exchange(i, width, last.old[i], last.expected, last.arg,
                                           last.order[1], last.order[2])
      IN /\ last.out[i].ok = c.ok
         /\ mem[i] = c.mem
         /\ last.out[i].exp = last.expected
         /\ ~last.out[i].ok => last.out[i].exp # last.old[i]

\* A compare_exchange_n failed: the location and the caller's value are untouched.
C9_FailedCasN ==
  /\ last.op = "compare_exchange_n"
  /\ ~last.out["MSVC"].ok
  /\ ~last.out["GCC"].ok
  /\ mem["MSVC"] = last.old["MSVC"]
  /\ last.out["MSVC"].exp = last.expected

(* ---- C10 (SpecShim) ---- *)

ShimOps ==
  {"__atomic_fetch_add", "__atomic_fetch_sub", "__atomic_exchange_n",
   "__atomic_compare_exchange_n"}

\* The table as the claim states it.
ClaimedOrderOf(code) ==
  CASE code = 0 -> "Relaxed"
    [] code = 1 -> "Acquire"
    [] code = 2 -> "Acquire"
    [] code = 3 -> "Release"
    [] code = 4 -> "AcqRel"
    [] code = 5 -> "SeqCst"

\* The table with Consume taking the default.
AmendedOrderOf(code) ==
  CASE code = 0 -> "Relaxed"
    [] code = 1 -> "SeqCst"
    [] code = 2 -> "Acquire"
    [] code = 3 -> "Release"
    [] code = 4 -> "AcqRel"
    [] code = 5 -> "SeqCst"

\* C10 (as stated): every compatibility entry point hands the dispatch layer,
\* for each ordering code 0..5 it is given, the ordering of the table
\* 0 -> Relaxed, 1 -> Acquire, 2 -> Acquire, 3 -> Release, 4 -> AcqRel, 5 -> SeqCst.
C10_TableAsClaimed ==
  last.op \in ShimOps =>
    \A k \in 1..Len(last.order) :
      last.code[k] \in 0..5 => last.order[k] = ClaimedOrderOf(last.code[k])

\* C10 (amended): every compatibility entry point hands the dispatch layer,
\* for each ordering code 0..5 it is given, the ordering of the table
\* 0 -> Relaxed, 1 -> SeqCst, 2 -> Acquire, 3 -> Release, 4 -> AcqRel, 5 -> SeqCst.
C10_TableAmended ==
  last.op \in ShimOps =>
    /\ Len(last.order) = (IF last.op = "__atomic_compare_exchange_n" THEN 2 ELSE 1)
    /\ \A k \in 1..Len(last.order) :
         last.code[k] \in 0..5 => last.order[k] = AmendedOrderOf(last.code[k])

\* An entry point was called with the code of Consume and used SeqCst.
C10_ConsumeCall ==
  /\ last.op = "__atomic_exchange_n"
  /\ last.code = <<ATOMIC_CONSUME>>
  /\ last.order = <<"SeqCst">>

(* ------------------------------- C11 ------------------------------------- *)

\* The ordering codes the switch of mtk_map_gcc_order has a case for.
SwitchCases == {ATOMIC_RELAXED, ATOMIC_ACQUIRE, ATOMIC_RELEASE, ATOMIC_ACQ_REL, ATOMIC_SEQ_CST}

\* A call has completed by returning: a value of type T, for a
\* compare-and-swap its boolean with *expected holding a value of type T, and
\* for store (void) nothing.
Returned(c, i) ==
  IF c.op \in {"__atomic_compare_exchange_n", "compare_exchange", "compare_exchange_n"}
  THEN c.out[i].ok \in BOOLEAN /\ Len(c.out[i].exp) = width
  ELSE IF c.op = "store" THEN c.out[i].ret = <<>>
  ELSE Len(c.out[i].ret) = width

\* C11: a compatibility entry point called with an ordering code that the
\* mapping does not recognise (no case of its switch: a code below 0, above 5,
\* or 1) hands the dispatch layer SeqCst for that code, and the call completes
\* like any other: it returns, and the location holds a value of type T.
C11_UnrecognisedIsSeqCst ==
  last.op \in ShimOps =>
    /\ \A k \in 1..Len(last.order) :
         last.code[k] \notin SwitchCases => last.order[k] = "SeqCst"
    /\ Returned(last, "MSVC")
    /\ Len(mem["MSVC"]) = width

\* An entry point was called with a code beyond the six constants, and a
\* compare-and-swap with two such codes.
C11_UnrecognisedCall ==
  /\ last.op = "__atomic_compare_exchange_n"
  /\ last.code[1] = ATOMIC_SEQ_CST + 1
  /\ last.code[2] = ATOMIC_RELAXED - 1
  /\ last.order = <<"SeqCst", "SeqCst">>

(* ------------------------------- C12 ------------------------------------- *)

\* The ordering the shim's table gives a code (see C10, C11).
MappedOrder(code) == IF code \in 0..5 THEN AmendedOrderOf(code) ELSE "SeqCst"

\* How many times an event occurs among the steps of a call.
Count(ev, e) == Cardinality({k \in 1..Len(ev) : ev[k] = e})

\* C12: each compatibility entry point is a pure forwarder.  Its outcome
\* (return value, content left, *expected, steps taken) is that of the one
\* dispatch-layer operation of the same name called with the mapped
\* ordering(s); it executes one native primitive; fetch_add, fetch_sub and
\* exchange_n return the content before the call; compare_exchange_n returns
\* whether the content equalled *expected, stores desired exactly then and
\* writes the content to *expected otherwise, whatever the weak flag; and for
\* fetch_add, exchange_n and compare_exchange_n the return value, the content
\* and *expected are those of GCC's builtin of the same name.
C12_ShimForwards ==
  last.op \in ShimOps =>
    LET o   == last.out["MSVC"]
        g   == last.out["GCC"]
        old == last.old["MSVC"]
        ord == [k \in 1..Len(last.order) |-> MappedOrder(last.code[k])]
    IN /\ last.order = ord
       /\ Count(o.ev, Intrinsic) = 1
       /\ last.op = "__atomic_fetch_add" =>
            /\ o = mtk_atomic_fetch_add("MSVC", width, old, last.arg, ord[1])
            /\ o.ret = old
            /\ o.mem = WrapAdd(old, last.arg)
            /\ o.ret = g.ret /\ o.mem = g.mem
       /\ last.op = "__atomic_fetch_sub" =>
            /\ \E ub \in Vals(width) :
                 o = mtk_atomic_fetch_sub("MSVC", width, old, last.arg, ord[1], ub)
            /\ o.ret = old
       /\ last.op = "__atomic_exchange_n" =>
            /\ o = mtk_atomic_exchange("MSVC", width, old, last.arg, ord[1])
            /\ o.ret = old
            /\ o.mem = last.arg
            /\ o.ret = g.ret /\ o.mem = g.mem
       /\ last.op = "__atomic_compare_exchange_n" =>
            /\ o = mtk_atomic_compare_exchange("MSVC", width, old, last.expected, last.arg,
                                               ord[1], ord[2])
            /\ o.ok = (old = last.expected)
            /\ o.mem = IF o.ok THEN last.arg ELSE old
            /\ o.exp = old
            /\ o.ok = g.ok /\ o.mem = g.mem /\ o.exp = g.exp

\* A weak compare-and-swap through the shim failed and wrote the content to
\* *expected.
C12_WeakCasFailed ==
  /\ last.op = "__atomic_compare_exchange_n"
  /\ last.code[3] = 1
  /\ ~last.out["MSVC"].ok
  /\ last.out["MSVC"].exp = last.old["MSVC"]
  /\ last.old["MSVC"] # last.expected

(* ------------------------------- C13 ------------------------------------- *)

\* C13: every operation is non-blocking and cannot fail.  Whatever the other
\* thread is doing, a thread outside a call can enter any function, and the
\* next statement of a thread inside a call can execute; a call consists of one
\* native primitive and at most one barrier under either implementation, so it
\* returns after that many steps of its own; and a call that returned holds
\* its result (a value of type T, a boolean with *expected, nothing for store).
C13_NonBlocking ==
  /\ \A t \in Steppers :
       /\ (pc[t] = 0 /\ run[t] = Idle) => ENABLED Invoke(t)
       /\ run[t] # Idle =>
            /\ CanStep(t)
            /\ run[t].k < Steps(run[t])
            /\ \A i \in Impl :
                 /\ Count(Plan(i, run[t]), Intrinsic) = 1
                 /\ Count(Plan(i, run[t]), Barrier) <= 1
                 /\ Len(Plan(i, run[t])) =
                      Count(Plan(i, run[t]), Intrinsic) + Count(Plan(i, run[t]), Barrier)
  /\ last.op \in StepOps =>
       \A i \in Impl : Returned(last, i) /\ Count(last.out[i].ev, Intrinsic) = 1

\* One thread has returned from its call while the other is between the
\* barrier and the native primitive of its own.
C13_ReturnedBesideRunning ==
  /\ last.op \in StepOps
  /\ last.t = Caller
  /\ run[Rival] # Idle
  /\ run[Rival].k > 0

(* ------------------------------- C14 ------------------------------------- *)

\* The position of the lowest set bit of a value that has one.
LowestIndex(x) ==
  CHOOSE k \in 0..63 : Bit(x, k) = 1 /\ \A j \in 0..(k - 1) : Bit(x, j) = 0

\* C14: under either toolchain lowest_set_bit_64(x) returns the index of the
\* lowest set bit of x for x # 0, and 64 for x = 0.
C14_LowestSetBit ==
  last.op = "lowest_set_bit_64" =>
    \A i \in Impl :
      last.out[i].ret = IF last.arg = Fill(8, 0) THEN 64 ELSE LowestIndex(last.arg)

(* ------------------------------- C15 ------------------------------------- *)

\* The largest n with 2^n <= x, for an int x >= 1.
FloorLog2(x) ==
  CHOOSE n \in 0..30 : 2 ^ n <= x /\ (n < 30 => x < 2 ^ (n + 1))

\* C15: log2(x) returns (so its recursion ends) floor(log2(x)) for every int
\* x >= 1 and 0 for every x <= 0; is_power_of_2(x) is true exactly when one
\* bit of x is set.
C15_Log2AndPowerOf2 ==
  /\ last.op = "log2" =>
       \A i \in Impl :
         last.out[i].ret = IF last.arg >= 1 THEN FloorLog2(last.arg) ELSE 0
  /\ last.op = "is_power_of_2" =>
       \A i \in Impl :
         last.out[i].ret = (Cardinality({k \in 0..63 : Bit(last.arg, k) = 1}) = 1)

\* is_power_of_2(64) returned true and then log2(8) returned 3.
C15_SixtyFourAndEight ==
  /\ pc[Caller] = 4
  /\ got[Caller][3].op = "is_power_of_2"
  /\ got[Caller][3].arg = Small(8, 64)
  /\ got[Caller][3].out["GCC"].ret = TRUE
  /\ last.op = "log2"
  /\ last.arg = 8
  /\ last.out["GCC"].ret = 3

(* --------------------------- C16 and C18 --------------------------------- *)

ReleaseOrders == {"Release", "AcqRel", "SeqCst"}
AcquireOrders == {"Acquire", "AcqRel", "SeqCst"}

\* The operations C16 names (compare_exchange in both of its forms).
DispatchOps ==
  {"load", "store", "exchange", "fetch_add", "fetch_sub", "xor_fetch",
   "compare_exchange", "compare_exchange_n"}

\* Among the statements of a call, a barrier comes before (after) the
\* native primitive.
BarrierBefore(ev) ==
  \E j \in 1..Len(ev), k \in 1..Len(ev) : j < k /\ ev[j] = Barrier /\ ev[k] = Intrinsic
BarrierAfter(ev) ==
  \E j \in 1..Len(ev), k \in 1..Len(ev) : j < k /\ ev[j] = Intrinsic /\ ev[k] = Barrier

\* C16 (as stated): under MSVC every operation called with Release, AcqRel or
\* SeqCst executes a barrier before its intrinsic, and every operation called
\* with Acquire, AcqRel or SeqCst executes a barrier after its intrinsic.
C16_BarriersAsClaimed ==
  last.op \in DispatchOps =>
    /\ last.order[1] \in ReleaseOrders => BarrierBefore(last.out["MSVC"].ev)
    /\ last.order[1] \in AcquireOrders => BarrierAfter(last.out["MSVC"].ev)

\* C16 (amended): under MSVC store and exchange execute a barrier and then
\* the intrinsic when called with Release, AcqRel or SeqCst, and the intrinsic
\* alone otherwise; load executes the intrinsic and then a barrier when called
\* with Acquire, AcqRel or SeqCst, and the intrinsic alone otherwise;
\* fetch_add, fetch_sub, xor_fetch and compare_exchange execute the intrinsic
\* alone whatever the ordering.
C16_BarriersAmended ==
  last.op \in DispatchOps =>
    LET ev == last.out["MSVC"].ev
        o  == last.order[1]
    IN /\ last.op \in {"store", "exchange"} =>
            ev = IF o \in ReleaseOrders THEN <<Barrier, Intrinsic>> ELSE <<Intrinsic>>
       /\ last.op = "load" =>
            ev = IF o \in AcquireOrders THEN <<Intrinsic, Barrier>> ELSE <<Intrinsic>>
       /\ last.op \notin {"load", "store", "exchange"} => ev = <<Intrinsic>>

\* A fetch_add with SeqCst executed its intrinsic and no barrier.
C16_SeqCstFetchAdd ==
  /\ last.op = "fetch_add"
  /\ last.order = <<"SeqCst">>
  /\ last.out["MSVC"].ev = <<Intrinsic>>

\* C18 (as stated): under MSVC load executes its trailing barrier exactly
\* when the ordering is Acquire or SeqCst, and store executes its leading
\* barrier exactly when the ordering is Release or SeqCst.
C18_BarrierAsClaimed ==
  /\ last.op = "load" =>
       (BarrierAfter(last.out["MSVC"].ev) <=> last.order[1] \in {"Acquire", "SeqCst"})
  /\ last.op = "store" =>
       (BarrierBefore(last.out["MSVC"].ev) <=> last.order[1] \in {"Release", "SeqCst"})

\* C18 (amended): under MSVC load executes its trailing barrier exactly when
\* the ordering is Acquire, AcqRel or SeqCst (not for Relaxed or Release), and
\* store executes its leading barrier exactly when the ordering is Release,
\* AcqRel or SeqCst (not for Relaxed or Acquire); load executes no leading and
\* store no trailing barrier.
C18_BarrierAmended ==
  /\ last.op = "load" =>
       /\ BarrierAfter(last.out["MSVC"].ev) <=> last.order[1] \in {"Acquire", "AcqRel", "SeqCst"}
       /\ ~BarrierBefore(last.out["MSVC"].ev)
  /\ last.op = "store" =>
       /\ BarrierBefore(last.out["MSVC"].ev) <=> last.order[1] \in {"Release", "AcqRel", "SeqCst"}
       /\ ~BarrierAfter(last.out["MSVC"].ev)

\* A load with AcqRel executed its trailing barrier.
C18_AcqRelLoad ==
  /\ last.op = "load"
  /\ last.order = <<"AcqRel">>
  /\ last.out["MSVC"].ev = <<Intrinsic, Barrier>>

(* ------------------------------- C17 ------------------------------------- *)

\* C17: a load never changes the content of the location, under MSVC (OR with
\* zero) no more than under GCC (a plain atomic read): it returns the content
\* and leaves it, so the caller's compare-and-swap, whose expected is the
\* content before any load, succeeds and stores its desired value however
\* many loads of other threads came before it.
C17_LoadLeavesContent ==
  /\ last.op = "load" =>
       \A i \in Impl : mem[i] = last.old[i] /\ last.out[i].ret = last.old[i]
  /\ mem["MSVC"] = mem["GCC"]
  /\ pc[Caller] = 0 => \A i \in Impl : mem[i] = start
  /\ pc[Caller] = 1 =>
       \A i \in Impl : got[Caller][1].out[i].ok /\ mem[i] = Written(Caller)

\* The compare-and-swap succeeded after every other thread had loaded.
C17_CasAfterLoads ==
  /\ last.op = "compare_exchange"
  /\ \A t \in Threads : pc[t] = 1
  /\ last.out["MSVC"].ok
  /\ start # Fill(width, 0)

(* ------------------------------- C19 ------------------------------------- *)

\* The threads whose call has returned, and those among them that got true.
Called == {t \in Threads : pc[t] = 1}
Winners(i) == {t \in Called : got[t][1].out[i].ok}

\* C19: when the threads race to compare-and-swap the location from its
\* content X to their own desired values (all different from X), then under
\* either implementation, as soon as one call has returned exactly one call
\* has returned true; every other call that returned got false and found the
\* winner's desired value in its expected; and the location holds the
\* winner's desired value.
C19_OneWinner ==
  Called # {} =>
    \A i \in Impl :
      /\ Cardinality(Winners(i)) = 1
      /\ \A w \in Winners(i) :
           /\ mem[i] = Written(w)
           /\ got[w][1].out[i].exp = start
           /\ \A t \in Called \ {w} :
                /\ ~got[t][1].out[i].ok
                /\ got[t][1].out[i].exp = Written(w)

\* Every thread has called, and the caller was among the losers.
C19_AllCalledCallerLost ==
  /\ \A t \in Threads : pc[t] = 1
  /\ ~got[Caller][1].out["MSVC"].ok
  /\ got[Caller][1].out["MSVC"].exp # start

(* ------------------------------- C20 ------------------------------------- *)

\* The content after n increments of the initial content (n < 256).
Plus(n) == WrapAdd(start, Small(width, n))

\* No update is lost, and a failed attempt has a reason: under either
\* implementation the location holds the initial content plus one for every
\* thread that has left its loop; a thread inside its loop expects the content
\* it last read; a thread leaves its loop exactly when its call returned true;
\* and when an attempt failed, at least one thread, and not the caller, had
\* left its loop (its attempt had succeeded) between that attempt and the
\* caller's previous read of the location.
C20_NoLostUpdate ==
  /\ \A i \in Impl : mem[i] = Plus(Cardinality(Finished))
  /\ \A t \in Threads :
       pc[t] = 1 => \A i \in Impl : run[t].expected[i] = Plus(run[t].since)
  /\ last.op = "compare_exchange" =>
       /\ \A i \in Impl : last.out[i].ok <=> pc[last.t] = 2
       /\ pc[last.t] = 1 =>
            /\ run[last.t].between > 0
            /\ last.t \notin Finished

\* Every thread has left its loop.
AllFinished == Finished = Threads

\* C20: in the compare-and-swap retry loop no update is lost (the location
\* holds initial + N once all N threads have finished), every failed attempt
\* follows another thread's success, and under fair scheduling every thread
\* eventually finishes.
C20_LoopIncrements == [] C20_NoLostUpdate /\ <> AllFinished

\* An attempt failed after more than one other thread had succeeded since the
\* thread's last read, on a location whose content wraps around.
C20_FailedBehindTwo ==
  /\ last.op = "compare_exchange"
  /\ ~last.out["MSVC"].ok
  /\ run[last.t].between > 1
  /\ start = Fill(width, 255)

====
